---------------------------- MODULE Spec2Model ----------------------------
(***************************************************************************)
(* The Java grading engine of code-classroom: executeJavaCode and          *)
(* runCommand (src/unnamed/part_004, lines 26-226; the older copy is       *)
(* src/server/javaExecutor.ts).                                            *)
(*                                                                         *)
(* A text is a sequence of one-character strings; a message built by a     *)
(* template literal is the concatenation of its literal segments and the   *)
(* interpolated texts.  An object with an undefined field is a record      *)
(* without that field.                                                     *)
(***************************************************************************)
EXTENDS Integers, Sequences, FiniteSets, TLC

\* ------------------------------------------------------------------ bounds
MaxCases == 2
MaxLen == 2
\* the longest output of the comparison by itself
MaxOutputLen == 4

\* ------------------------------------------------------------ value spaces
Runs == {"r1", "r2"}
Chars == {"a", "\n"}

SeqsUpTo(S, n) == UNION {[1..k -> S] : k \in 0..n}

\* what a child may print: every text of at most MaxLen characters
Texts == SeqsUpTo(Chars, MaxLen)
StderrTexts == {<<>>, <<"e">>}
\* the test cases a problem may hold: with and without input, with and without
\* a trailing newline in the expected output, and an empty expected output
TestCase ==
    {[input |-> <<>>, expectedOutput |-> <<"a">>],
     [input |-> <<"a">>, expectedOutput |-> <<"a", "\n">>],
     [input |-> <<>>, expectedOutput |-> <<>>]}
Inputs == {t.input : t \in TestCase}
TestCaseLists == SeqsUpTo(TestCase, MaxCases)

\* the outputs the comparison is tried on: words, spaces and lines
OutputChars == {"a", " ", "\n"}
OutputTexts == SeqsUpTo(OutputChars, MaxOutputLen)

\* the close event's code: a process ended by a signal closes with null
NullCode == -1
CloseCodes == {0, 1, NullCode}

TimeoutMessage == <<"Timeout: Code execution took too long">>
SpawnErrorMessage == <<"spawn ENOENT">>
FsErrorMessage == <<"EACCES: permission denied">>

\* ------------------------------------------------------------------- paths
\* fileName = `Solution_${suffix}.java`; the suffix is the run's nanoid, taken
\* to be unique per run
SourceFile(r) == <<"Solution_", r, ".java">>
ClassFile(r) == <<"Solution_", r, ".class">>
\* className = fileName.replace('.java', ''): the name the public class of the
\* submitted code is given, and the class java is started with
ClassName(r) == <<"Solution_", r>>
\* what java prints on stderr when main ends by an uncaught exception: the
\* exception and the frame of main, which names the class
StackTrace(r) ==
    <<"Exception in thread \"main\" java.lang.ArithmeticException\n\tat ">>
        \o ClassName(r) \o <<".main">>
InputFile(k) == <<"input_", ToString(k), ".txt">>

\* A source declares its public class alone ("single"), or with it a second
\* top-level class Helper, in one of two variants.  Only the public class is
\* renamed: javac writes the other class to Helper.class in the directory of
\* the source, and java -cp <that directory> loads it from there.  The file
\* is kept in the set of files together with the variant it holds.
JavaCodes == {"single", "h1", "h2"}
HelperVariants == JavaCodes \ {"single"}
HelperClassFile(v) == <<"Helper", ".class", v>>
HelperClassFiles == {HelperClassFile(v) : v \in HelperVariants}

\* the directory after javac compiled the source src of run r
JavacOutput(fs, r, src) ==
    IF src = "single"
    THEN fs \cup {ClassFile(r)}
    ELSE ((fs \ HelperClassFiles) \cup {HelperClassFile(src)})
             \cup {ClassFile(r)}

\* ---------------------------------------------------------- pure functions
\* s.trim(), for the white space of OutputChars
RECURSIVE Trim(_)
Trim(s) ==
    IF s # <<>> /\ s[1] \in {" ", "\n"}
    THEN Trim(Tail(s))
    ELSE IF s # <<>> /\ s[Len(s)] \in {" ", "\n"}
    THEN Trim(SubSeq(s, 1, Len(s) - 1))
    ELSE s

\* s.replace(/\n+$/, '')
RECURSIVE StripTrailingNewlines(_)
StripTrailingNewlines(s) ==
    IF s # <<>> /\ s[Len(s)] = "\n"
    THEN StripTrailingNewlines(SubSeq(s, 1, Len(s) - 1))
    ELSE s

\* s.split('\n')
RECURSIVE SplitLines(_)
SplitLines(s) ==
    IF \E k \in 1..Len(s) : s[k] = "\n"
    THEN LET k == CHOOSE j \in 1..Len(s) :
                     s[j] = "\n" /\ \A m \in 1..(j - 1) : s[m] # "\n"
         IN <<SubSeq(s, 1, k - 1)>> \o SplitLines(SubSeq(s, k + 1, Len(s)))
    ELSE <<s>>

\* code || 0
ExitCodeOf(code) == IF code = NullCode \/ code = 0 THEN 0 ELSE code

\* the last index at which the two line arrays differ, 0 when there is none
LastDifferingLine(expectedLines, actualLines) ==
    IF \E j \in 1..Len(expectedLines) : expectedLines[j] # actualLines[j]
    THEN CHOOSE j \in 1..Len(expectedLines) :
            /\ expectedLines[j] # actualLines[j]
            /\ \A m \in (j + 1)..Len(expectedLines) :
                  expectedLines[m] = actualLines[m]
    ELSE 0

\* the first index at which the two line arrays differ, 0 when there is none
FirstDifferingLine(expectedLines, actualLines) ==
    IF \E j \in 1..Len(expectedLines) : expectedLines[j] # actualLines[j]
    THEN CHOOSE j \in 1..Len(expectedLines) :
            /\ expectedLines[j] # actualLines[j]
            /\ \A m \in 1..(j - 1) : expectedLines[m] = actualLines[m]
    ELSE 0

\* the diagnostic of a mismatch in test case n (1-based), from the
\* normalized outputs
MismatchError(n, expectedOutput, actualOutput) ==
    LET expectedLines == SplitLines(expectedOutput)
        actualLines == SplitLines(actualOutput)
        j == FirstDifferingLine(expectedLines, actualLines)
    IN IF Len(expectedLines) # Len(actualLines)
       THEN <<"Test Case ", ToString(n), " Failed",
              " - Different number of lines. Expected ",
              ToString(Len(expectedLines)), " lines, got ",
              ToString(Len(actualLines)), " lines.">>
       ELSE IF j # 0
       THEN <<"Test Case ", ToString(n), " Failed", " - Line ", ToString(j),
              " differs.\nExpected: \"">> \o expectedLines[j]
              \o <<"\"\nActual: \"">> \o actualLines[j] \o <<"\"">>
       ELSE <<"Test Case ", ToString(n), " Failed",
              " - Outputs differ in whitespace or formatting.">>

\* the message with the loop index i in place of i + 1
RuntimeErrorMessageZeroBased(n, stderr) ==
    <<"Runtime Error in Test Case ", ToString(n - 1), ": ">> \o stderr

RuntimeErrorMessage(n, stderr) ==
    <<"Runtime Error in Test Case ", ToString(n), ": ">> \o stderr

\* the line with the loop index i in place of i + 1
PassedLineZeroBased(n) == <<"Test Case ", ToString(n - 1), ": Passed\n">>

PassedLine(n) == <<"Test Case ", ToString(n), ": Passed\n">>

AllPassedOutput(n) == <<"All ", ToString(n), " test cases passed!">>


\* ------------------------------------------------------------------- state
VARIABLES
    pc,               \* each run's position in executeJavaCode
    testCases,        \* each run's testCases argument
    javaCode,         \* each run's source, by the classes it declares
    i,                \* the loop index of the test-case loop (0-based)
    allTestsPassed,
    output,
    error,
    testCaseResults,
    compileResult,    \* <<>> until runCommand('javac') resolved, then <<result>>
    executeResult,    \* <<result>> of runCommand('java') within an iteration, else <<>>
    thrown,           \* <<>> or <<message>> of the exception the try block caught
    verdict,          \* the value executeJavaCode returns
    child,            \* the closure of the runCommand call each run is awaiting,
                      \* and what happened to its process (closeCode: <<>>
                      \* or <<the code of the close event>>)
    files,            \* the paths that exist in the temp directory
    spawned,          \* history: the processes each run spawned, in order
    runLog,           \* history: the exit code and stdout of each test-case run
    touched,          \* history: the paths each run wrote or unlinked
    unlinkFailed,     \* history: whether an unlink of the run failed
    route,            \* each request's position in its route's handler
    request,          \* each request: the route it addresses and the user
                      \* its session identifies ("none": no session)
    problemId,        \* the problem each request names
    now,              \* the server's clock: the value of new Date()
    hasEarnedPoints,  \* the handler's const hasEarnedPoints
    response,         \* the response sent to each request
    problems,         \* the problems table: a function from the stored ids
    submissions,      \* the submissions table: the rows in the order of insertion
    totalPoints       \* users.totalPoints of the user of the requests

runVars == <<i, allTestsPassed, output, error, testCaseResults>>
resultVars == <<compileResult, executeResult>>
histVars == <<spawned, runLog, touched, unlinkFailed>>
\* the state of the server that calls executeJavaCode: its requests and its
\* storage
\* what a request arrives with, and the clock
requestArgs == <<request, problemId>>
requestVars == <<route, requestArgs, now, hasEarnedPoints, response>>
storageVars == <<problems, submissions, totalPoints>>
serverVars == <<requestVars, storageVars>>
\* what no step of executeJavaCode and runCommand changes
callerVars == <<testCases, javaCode, serverVars>>
vars == <<pc, callerVars, runVars, resultVars, thrown, verdict, child, files,
          histVars>>

NoVerdict == [status |-> "none"]

NoChild ==
    [command |-> "none", id |-> 0, stdout |-> <<>>, stderr |-> <<>>,
     isResolved |-> FALSE, timer |-> "none", closed |-> FALSE,
     errored |-> FALSE, kills |-> 0, resolveLog |-> <<>>,
     stdinWritten |-> <<>>, stdinEnded |-> FALSE, closeCode |-> <<>>]

\* the value the promise of runCommand settled with: the first resolve() wins
Settled(c) == c.resolveLog # <<>>
PromiseValue(c) == c.resolveLog[1]

InitRun(started, cases) ==
    /\ pc = [r \in Runs |-> IF r \in started THEN "mkdir" ELSE "idle"]
    /\ testCases = [r \in Runs |-> IF r \in started THEN cases[r] ELSE <<>>]
    /\ i = [r \in Runs |-> 0]
    /\ allTestsPassed = [r \in Runs |-> TRUE]
    /\ output = [r \in Runs |-> <<>>]
    /\ error = [r \in Runs |-> <<>>]
    /\ testCaseResults = [r \in Runs |-> <<>>]
    /\ compileResult = [r \in Runs |-> <<>>]
    /\ executeResult = [r \in Runs |-> <<>>]
    /\ thrown = [r \in Runs |-> <<>>]
    /\ verdict = [r \in Runs |-> NoVerdict]
    /\ files = {}
    /\ spawned = [r \in Runs |-> <<>>]
    /\ runLog = [r \in Runs |-> <<>>]
    /\ touched = [r \in Runs |-> {}]
    /\ unlinkFailed = [r \in Runs |-> FALSE]

\* every source declares one class
SingleClass == javaCode = [r \in Runs |-> "single"]

\* the server without a request: executeJavaCode is called by itself
NoRequest == [endpoint |-> "none", userId |-> "none"]

NoRequests ==
    /\ route = [r \in Runs |-> "none"]
    /\ request = [r \in Runs |-> NoRequest]
    /\ problemId = [r \in Runs |-> "none"]
    /\ now = 0
    /\ hasEarnedPoints = [r \in Runs |-> FALSE]
    /\ response = [r \in Runs |-> "none"]
    /\ problems = [p \in {} |-> <<>>]
    /\ submissions = <<>>
    /\ totalPoints = 0

\* one call of executeJavaCode, with any list of test cases
Init ==
    /\ \E cases \in [{"r1"} -> TestCaseLists] : InitRun({"r1"}, cases)
    /\ child = [r \in Runs |-> NoChild]
    /\ SingleClass
    /\ NoRequests

\* -------------------------------------------------------------- runCommand
\* spawn(command, args, {cwd}), the timer armed, the handlers registered, and
\* the input written to the child's stdin and stdin ended, if (input)
NewChild(command, n, input) ==
    [command |-> command, id |-> n, stdout |-> <<>>, stderr |-> <<>>,
     isResolved |-> FALSE, timer |-> "armed", closed |-> FALSE,
     errored |-> FALSE, kills |-> 0, resolveLog |-> <<>>,
     stdinWritten |-> IF input # <<>> THEN input ELSE <<>>,
     stdinEnded |-> input # <<>>, closeCode |-> <<>>]

\* a timer callback that kills the child and leaves the promise to the close
\* event
TimerHandlerKillsOnly(c) ==
    IF ~c.isResolved
    THEN [c EXCEPT !.kills = @ + 1]
    ELSE c

\* the timer callback resolving with the output collected so far
TimerHandlerKeepsOutput(c) ==
    IF ~c.isResolved
    THEN [c EXCEPT !.kills = @ + 1,
                   !.isResolved = TRUE,
                   !.resolveLog = Append(@, [stdout |-> c.stdout,
                                             stderr |-> TimeoutMessage,
                                             exitCode |-> 1])]
    ELSE c

\* the setTimeout callback
TimerHandler(c) ==
    IF ~c.isResolved
    THEN [c EXCEPT !.kills = @ + 1,
                   !.isResolved = TRUE,
                   !.resolveLog = Append(@, [stdout |-> <<>>,
                                             stderr |-> TimeoutMessage,
                                             exitCode |-> 1])]
    ELSE c

\* the close handler without its isResolved guard
CloseHandlerUnguarded(c, code) ==
    [c EXCEPT !.timer = IF @ = "armed" THEN "cleared" ELSE @,
              !.isResolved = TRUE,
              !.resolveLog = Append(@, [stdout |-> c.stdout,
                                        stderr |-> c.stderr,
                                        exitCode |-> ExitCodeOf(code)])]

\* child.on('close', (code) => ...)
CloseHandler(c, code) ==
    IF ~c.isResolved
    THEN [c EXCEPT !.timer = IF @ = "armed" THEN "cleared" ELSE @,
                   !.isResolved = TRUE,
                   !.resolveLog = Append(@, [stdout |-> c.stdout,
                                             stderr |-> c.stderr,
                                             exitCode |-> ExitCodeOf(code)])]
    ELSE c

\* the error handler without its clearTimeout(timer)
ErrorHandlerKeepsTimer(c, message) ==
    IF ~c.isResolved
    THEN [c EXCEPT !.isResolved = TRUE,
                   !.resolveLog = Append(@, [stdout |-> <<>>,
                                             stderr |-> message,
                                             exitCode |-> 1])]
    ELSE c

\* child.on('error', (error) => ...)
ErrorHandler(c, message) ==
    IF ~c.isResolved
    THEN [c EXCEPT !.timer = IF @ = "armed" THEN "cleared" ELSE @,
                   !.isResolved = TRUE,
                   !.resolveLog = Append(@, [stdout |-> <<>>,
                                             stderr |-> message,
                                             exitCode |-> 1])]
    ELSE c

othersUnchanged == <<pc, callerVars, runVars, resultVars, thrown, verdict,
                     histVars>>

\* the timer fires: only a timer that was not cleared runs its callback
TimerFires(r) ==
    /\ child[r].timer = "armed"
    /\ child' = [child EXCEPT ![r] = [TimerHandler(@) EXCEPT !.timer = "fired"]]
    /\ UNCHANGED <<files, othersUnchanged>>

\* child.stdout.on('data'): a chunk of one character.  Chunks that arrive after
\* the promise settled only grow a buffer nobody reads and are left out; javac
\* reports on stderr, and compileResult.stdout is never read.
StdoutData(r) ==
    /\ child[r].command = "java"
    /\ ~child[r].closed /\ ~child[r].isResolved
    /\ Len(child[r].stdout) < MaxLen
    /\ \E ch \in Chars :
          child' = [child EXCEPT ![r].stdout = Append(@, ch)]
    /\ UNCHANGED <<files, othersUnchanged>>

\* child.stderr.on('data')
StderrData(r) ==
    /\ child[r].command # "none"
    /\ ~child[r].closed /\ ~child[r].isResolved
    /\ child[r].stderr = <<>>
    /\ \E t \in StderrTexts \ {<<>>} :
          child' = [child EXCEPT ![r].stderr = @ \o t]
    /\ UNCHANGED <<files, othersUnchanged>>

\* child.stderr.on('data') of a java child whose main threw
StderrTrace(r) ==
    /\ child[r].command = "java"
    /\ ~child[r].closed /\ ~child[r].isResolved
    /\ child[r].stderr = <<>>
    /\ child' = [child EXCEPT ![r].stderr = @ \o StackTrace(r)]
    /\ UNCHANGED <<files, othersUnchanged>>

\* the child closes with a code; a javac that exits 0 has written the class file
ChildCloses(r) ==
    /\ child[r].command # "none"
    /\ ~child[r].closed
    /\ \E code \in CloseCodes :
          /\ child' = [child EXCEPT
                          ![r] = [CloseHandler(@, code)
                                     EXCEPT !.closed = TRUE,
                                            !.closeCode = <<code>>]]
          /\ files' = IF child[r].command = "javac" /\ code = 0
                      THEN JavacOutput(files, r, javaCode[r])
                      ELSE files
    /\ UNCHANGED othersUnchanged

\* what the program of a source with a Helper class prints: the value the
\* Helper class it runs with computes
HelperOutput(v) == IF v = "h1" THEN <<"a">> ELSE <<>>

\* the java child of such a source runs to its end: it prints what the Helper
\* class of the directory computes and exits with code 0
HelperRuns(r) ==
    /\ child[r].command = "java"
    /\ ~child[r].closed
    /\ javaCode[r] # "single"
    /\ \E v \in HelperVariants :
          /\ HelperClassFile(v) \in files
          /\ child' = [child EXCEPT
                          ![r] = [CloseHandler(
                                     [@ EXCEPT !.stdout = @ \o HelperOutput(v)],
                                     0)
                                     EXCEPT !.closed = TRUE,
                                            !.closeCode = <<0>>]]
    /\ UNCHANGED files
    /\ UNCHANGED othersUnchanged

\* the child emits 'error' (it could not be spawned, or killed)
ChildErrors(r) ==
    /\ child[r].command # "none"
    /\ ~child[r].closed /\ ~child[r].errored
    /\ child' = [child EXCEPT
                    ![r] = [ErrorHandler(@, SpawnErrorMessage)
                               EXCEPT !.errored = TRUE]]
    /\ UNCHANGED <<files, othersUnchanged>>


\* --------------------------------------------------------- executeJavaCode
childVars == <<child, spawned>>

\* a rejection that no catch block handles: only the finally block runs
ThrowsUncaught(r) ==
    /\ pc' = [pc EXCEPT ![r] = "finally"]
    /\ thrown' = [thrown EXCEPT ![r] = <<FsErrorMessage>>]

\* an awaited fs call that rejects is caught by the catch block
Throws(r) ==
    /\ pc' = [pc EXCEPT ![r] = "catch"]
    /\ thrown' = [thrown EXCEPT ![r] = <<FsErrorMessage>>]

\* await fs.mkdir(tempDir, {recursive: true})
Mkdir(r) ==
    /\ pc[r] = "mkdir"
    /\ \/ pc' = [pc EXCEPT ![r] = "writeSource"] /\ UNCHANGED thrown
       \/ Throws(r)
    /\ UNCHANGED <<callerVars, runVars, resultVars, verdict, childVars, files,
                   runLog, touched, unlinkFailed>>

\* await fs.writeFile(filePath, imports + javaCode)
WriteSource(r) ==
    /\ pc[r] = "writeSource"
    /\ \/ /\ pc' = [pc EXCEPT ![r] = "compile"]
          /\ files' = files \cup {SourceFile(r)}
          /\ touched' = [touched EXCEPT ![r] = @ \cup {SourceFile(r)}]
          /\ UNCHANGED thrown
       \/ Throws(r) /\ UNCHANGED <<files, touched>>
    /\ UNCHANGED <<callerVars, runVars, resultVars, verdict, childVars, runLog,
                   unlinkFailed>>

\* runCommand('javac', [filePath], tempDir): no input
SpawnJavac(r) ==
    /\ pc[r] = "compile"
    /\ child' = [child EXCEPT ![r] = NewChild("javac", Len(spawned[r]) + 1, <<>>)]
    /\ spawned' = [spawned EXCEPT ![r] = Append(@, [command |-> "javac", case |-> 0])]
    /\ pc' = [pc EXCEPT ![r] = "awaitCompile"]
    /\ UNCHANGED <<callerVars, runVars, resultVars, thrown, verdict, files,
                   runLog, touched, unlinkFailed>>

\* the compile error reported under the prefix of the catch block
CompileErrorVerdictAsExecution(result) ==
    [status |-> "error",
     error |-> <<"Execution Error: ">> \o result.stderr]

CompileErrorVerdict(result) ==
    [status |-> "error",
     error |-> <<"Compilation Error: ">> \o result.stderr]

\* a test of the compile result that lets every result through
CompileAlwaysSucceeded(result) == TRUE

\* !(compileResult.exitCode !== 0)
CompileSucceeded(result) == result.exitCode = 0

\* compileResult = await runCommand(...); if (compileResult.exitCode !== 0)
\* return the compile error; else start the test-case loop.  The closure of the
\* settled runCommand call is dropped here: what its handlers do later reaches
\* nothing the run reads.
AfterCompile(r) ==
    /\ pc[r] = "awaitCompile"
    /\ Settled(child[r])
    /\ LET result == PromiseValue(child[r])
       IN /\ compileResult' = [compileResult EXCEPT ![r] = <<result>>]
          /\ IF ~CompileSucceeded(result)
             THEN /\ verdict' = [verdict EXCEPT ![r] = CompileErrorVerdict(result)]
                  /\ pc' = [pc EXCEPT ![r] = "finally"]
             ELSE /\ pc' = [pc EXCEPT ![r] = "loop"]
                  /\ UNCHANGED verdict
    /\ child' = [child EXCEPT ![r] = NoChild]
    /\ UNCHANGED <<callerVars, runVars, executeResult, thrown, spawned, files,
                   runLog, touched, unlinkFailed>>

\* for (let i = 0; i < testCases.length; i++): the loop test, then
\* await fs.writeFile(inputFile, testCase.input || '')
WriteInput(r) ==
    /\ pc[r] = "loop"
    /\ i[r] < Len(testCases[r])
    /\ \/ /\ pc' = [pc EXCEPT ![r] = "execute"]
          /\ files' = files \cup {InputFile(i[r])}
          /\ touched' = [touched EXCEPT ![r] = @ \cup {InputFile(i[r])}]
          /\ UNCHANGED thrown
       \/ Throws(r) /\ UNCHANGED <<files, touched>>
    /\ UNCHANGED <<callerVars, runVars, resultVars, verdict, childVars, runLog,
                   unlinkFailed>>

\* runCommand('java', ['-cp', tempDir, className], tempDir, testCase.input || '', 5000)
SpawnJava(r) ==
    /\ pc[r] = "execute"
    /\ child' = [child EXCEPT
                    ![r] = NewChild("java", Len(spawned[r]) + 1,
                                    testCases[r][i[r] + 1].input)]
    /\ spawned' = [spawned EXCEPT
                      ![r] = Append(@, [command |-> "java", case |-> i[r] + 1])]
    /\ pc' = [pc EXCEPT ![r] = "awaitExecute"]
    /\ UNCHANGED <<callerVars, runVars, resultVars, thrown, verdict, files,
                   runLog, touched, unlinkFailed>>

RuntimeErrorResult(testCase, result) ==
    [input |-> testCase.input,
     expectedOutput |-> testCase.expectedOutput,
     actualOutput |-> <<"Runtime Error: ">> \o result.stderr,
     passed |-> FALSE]

\* the comparison without the normalization
TestPassedExact(testCase, result) ==
    result.stdout = testCase.expectedOutput

\* actualOutput === expectedOutput, after the trailing newlines are removed
TestPassed(testCase, result) ==
    StripTrailingNewlines(result.stdout)
        = StripTrailingNewlines(testCase.expectedOutput)

\* an entry with the expected and the actual output in each other's place
ComparedResultSwapped(testCase, result) ==
    [input |-> testCase.input,
     expectedOutput |-> result.stdout,
     actualOutput |-> testCase.expectedOutput,
     passed |-> TestPassed(testCase, result)]

ComparedResult(testCase, result) ==
    [input |-> testCase.input,
     expectedOutput |-> testCase.expectedOutput,
     actualOutput |-> result.stdout,
     passed |-> TestPassed(testCase, result)]

\* a loop that goes on to the next test case after a failing one
StayInLoop == "unlinkInput"

\* break: the loop is left for the return statement that follows it
LeaveLoop == "return"

\* the body of the loop after executeResult = await runCommand(...)
AfterExecute(r) ==
    /\ pc[r] = "awaitExecute"
    /\ Settled(child[r])
    /\ LET result == PromiseValue(child[r])
           testCase == testCases[r][i[r] + 1]
           n == i[r] + 1
       IN /\ executeResult' = [executeResult EXCEPT ![r] = <<result>>]
          /\ runLog' = [runLog EXCEPT
                          ![r] = Append(@, [exitCode |-> result.exitCode,
                                            stdout |-> result.stdout])]
          /\ IF result.exitCode # 0
             THEN /\ allTestsPassed' = [allTestsPassed EXCEPT ![r] = FALSE]
                  /\ error' = [error EXCEPT
                                  ![r] = RuntimeErrorMessage(n, result.stderr)]
                  /\ testCaseResults' =
                        [testCaseResults EXCEPT
                            ![r] = Append(@, RuntimeErrorResult(testCase, result))]
                  /\ pc' = [pc EXCEPT ![r] = LeaveLoop]
                  /\ UNCHANGED output
             ELSE /\ testCaseResults' =
                        [testCaseResults EXCEPT
                            ![r] = Append(@, ComparedResult(testCase, result))]
                  /\ IF ~TestPassed(testCase, result)
                     THEN /\ allTestsPassed' = [allTestsPassed EXCEPT ![r] = FALSE]
                          /\ error' =
                                [error EXCEPT
                                    ![r] = MismatchError(
                                              n,
                                              StripTrailingNewlines(testCase.expectedOutput),
                                              StripTrailingNewlines(result.stdout))]
                          /\ pc' = [pc EXCEPT ![r] = LeaveLoop]
                          /\ UNCHANGED output
                     ELSE /\ output' = [output EXCEPT ![r] = @ \o PassedLine(n)]
                          /\ pc' = [pc EXCEPT ![r] = "unlinkInput"]
                          /\ UNCHANGED <<allTestsPassed, error>>
    /\ child' = [child EXCEPT ![r] = NoChild]
    /\ UNCHANGED <<callerVars, i, compileResult, thrown, verdict, spawned,
                   files, touched, unlinkFailed>>

\* await fs.unlink(path).catch(() => {}): the file is removed, or the unlink
\* fails (the file is not there, or may not be removed) and the failure is dropped
Unlink(r, path, ok) ==
    /\ files' = IF ok THEN files \ {path} ELSE files
    /\ touched' = [touched EXCEPT ![r] = @ \cup {path}]
    /\ unlinkFailed' = [unlinkFailed EXCEPT ![r] = @ \/ (~ok /\ path \in files)]

\* await fs.unlink(inputFile).catch(() => {}); i++: the iteration ends, and
\* with it the scope of its executeResult
UnlinkInput(r) ==
    /\ pc[r] = "unlinkInput"
    /\ \E ok \in BOOLEAN : Unlink(r, InputFile(i[r]), ok)
    /\ i' = [i EXCEPT ![r] = @ + 1]
    /\ executeResult' = [executeResult EXCEPT ![r] = <<>>]
    /\ pc' = [pc EXCEPT ![r] = "loop"]
    /\ UNCHANGED <<callerVars, allTestsPassed, output, error, testCaseResults,
                   compileResult, thrown, verdict, childVars, runLog>>

\* a return statement with error: error, the text as it is, also when empty
FinalVerdictWithError(passed, n, out, err, results) ==
    [status |-> IF passed THEN "passed" ELSE "failed",
     output |-> IF passed THEN AllPassedOutput(n) ELSE out,
     error |-> err,
     executionTime |-> "elapsed", testCaseResults |-> results]

\* a return statement that reports every verdict short of passed as an error
FinalVerdictAsError(passed, n, out, err, results) ==
    IF passed
    THEN [status |-> "passed", output |-> AllPassedOutput(n),
          executionTime |-> "elapsed", testCaseResults |-> results]
    ELSE [status |-> "error", output |-> out, error |-> err,
          executionTime |-> "elapsed", testCaseResults |-> results]

\* a return statement that takes a run without a test case for a failed one
FinalVerdictOfSomeCase(passed, n, out, err, results) ==
    IF passed /\ n > 0
    THEN [status |-> "passed", output |-> AllPassedOutput(n),
          executionTime |-> "elapsed", testCaseResults |-> results]
    ELSE [status |-> "failed", output |-> out, error |-> err,
          executionTime |-> "elapsed", testCaseResults |-> results]

\* the object of the return statement after the loop; a field whose value is
\* undefined is absent
FinalVerdict(passed, n, out, err, results) ==
    IF passed
    THEN [status |-> "passed", output |-> AllPassedOutput(n),
          executionTime |-> "elapsed", testCaseResults |-> results]
    ELSE [status |-> "failed", output |-> out, error |-> err,
          executionTime |-> "elapsed", testCaseResults |-> results]

\* the loop ended or was left by break: return {status, output, error, ...}
Return(r) ==
    /\ \/ pc[r] = "return"
       \/ pc[r] = "loop" /\ i[r] >= Len(testCases[r])
    /\ verdict' = [verdict EXCEPT
                      ![r] = FinalVerdict(allTestsPassed[r], Len(testCases[r]),
                                          output[r], error[r],
                                          testCaseResults[r])]
    /\ pc' = [pc EXCEPT ![r] = "finally"]
    /\ UNCHANGED <<callerVars, runVars, resultVars, thrown, childVars, files,
                   histVars>>

ExecutionErrorVerdict(message) ==
    [status |-> "error", error |-> <<"Execution Error: ">> \o message]

\* catch (error) { return {status: 'error', error: `Execution Error: ...`} }
Catch(r) ==
    /\ pc[r] = "catch"
    /\ verdict' = [verdict EXCEPT ![r] = ExecutionErrorVerdict(thrown[r][1])]
    /\ pc' = [pc EXCEPT ![r] = "finally"]
    /\ UNCHANGED <<callerVars, runVars, resultVars, thrown, childVars, files,
                   histVars>>

\* finally: await fs.unlink(filePath).catch(() => {})
UnlinkSource(r) ==
    /\ pc[r] = "finally"
    /\ \E ok \in BOOLEAN : Unlink(r, SourceFile(r), ok)
    /\ pc' = [pc EXCEPT ![r] = "finallyClass"]
    /\ UNCHANGED <<callerVars, runVars, resultVars, thrown, verdict, childVars,
                   runLog>>

\* the last unlink without its catch: a failure is thrown out of the finally
\* block and takes the place of the verdict
UnlinkClassUncaught(r) ==
    /\ pc[r] = "finallyClass"
    /\ \E ok \in BOOLEAN :
          /\ Unlink(r, ClassFile(r), ok)
          /\ verdict' = [verdict EXCEPT
                            ![r] = IF ok THEN @
                                   ELSE ExecutionErrorVerdict(FsErrorMessage)]
    /\ pc' = [pc EXCEPT ![r] = "done"]
    /\ UNCHANGED <<callerVars, runVars, resultVars, thrown, childVars, runLog>>

\* finally: await fs.unlink(`${className}.class`).catch(() => {}); after it
\* the promise of executeJavaCode resolves with the verdict
UnlinkClass(r) ==
    /\ pc[r] = "finallyClass"
    /\ \E ok \in BOOLEAN : Unlink(r, ClassFile(r), ok)
    /\ pc' = [pc EXCEPT ![r] = "done"]
    /\ UNCHANGED <<callerVars, runVars, resultVars, thrown, verdict, childVars,
                   runLog>>

Returned(r) == pc[r] = "done"

\* --------------------------------------------------- POST /api/submissions
\* The handler behind requireAuth, of a request whose session identifies a
\* user.  A request r has its executeJavaCode call in run r.  The storage calls are
\* taken to succeed; each is one statement of the database.  A row of the
\* submissions table is kept without its code, output and times.
User == "u1"
ProblemIds == {"p1", "p2"}
StoredProblemIds == {"p1"}
ProblemPoints == 5

executorVars == <<pc, testCases, javaCode, runVars, resultVars, thrown, verdict, child,
                  files, histVars>>

\* storage.hasUserEarnedPointsForProblem(userId, problemId)
HasUserEarnedPointsForProblem(userId, p) ==
    \E k \in 1..Len(submissions) :
        /\ submissions[k].studentId = userId
        /\ submissions[k].problemId = p
        /\ submissions[k].status = "passed"

\* result.status === "passed" && !hasEarnedPoints
Awards(status, hasEarned) == status = "passed" /\ ~hasEarned

\* const problem = await storage.getProblem(submissionData.problemId); 404 when
\* there is none, else executeJavaCode(submissionData.code, problem.testCases)
\* is called and runs up to its first await
GetProblem(r) ==
    /\ route[r] = "getProblem"
    /\ IF problemId[r] \in DOMAIN problems
       THEN /\ route' = [route EXCEPT ![r] = "executeJavaCode"]
            /\ pc' = [pc EXCEPT ![r] = "mkdir"]
            /\ testCases' = [testCases EXCEPT
                                ![r] = problems[problemId[r]].testCases]
            /\ UNCHANGED response
       ELSE /\ route' = [route EXCEPT ![r] = "responded"]
            /\ response' = [response EXCEPT ![r] = "404"]
            /\ UNCHANGED <<pc, testCases>>
    /\ UNCHANGED <<requestArgs, now, hasEarnedPoints, storageVars, javaCode,
                   runVars, resultVars, thrown, verdict, child, files,
                   histVars>>

\* const result = await executeJavaCode(...); then
\* hasEarnedPoints = await storage.hasUserEarnedPointsForProblem(userId, problemId)
HasEarned(r) ==
    /\ route[r] = "executeJavaCode"
    /\ Returned(r)
    /\ hasEarnedPoints' =
          [hasEarnedPoints EXCEPT
              ![r] = HasUserEarnedPointsForProblem(request[r].userId,
                                                   problemId[r])]
    /\ route' = [route EXCEPT ![r] = "createSubmission"]
    /\ UNCHANGED <<requestArgs, now, response, storageVars, executorVars>>

\* submission = await storage.createSubmission({...submissionData, studentId,
\* status, pointsEarned: pointsToAward, ...}); without an award the handler
\* goes on to res.json(submission)
CreateSubmission(r) ==
    /\ route[r] = "createSubmission"
    /\ LET status == verdict[r].status
           award == Awards(status, hasEarnedPoints[r])
           pointsToAward == IF award THEN problems[problemId[r]].points ELSE 0
       IN /\ submissions' =
                Append(submissions,
                       [studentId |-> request[r].userId,
                        problemId |-> problemId[r],
                        status |-> status, pointsEarned |-> pointsToAward])
          /\ IF award
             THEN /\ route' = [route EXCEPT ![r] = "updateUserPoints"]
                  /\ UNCHANGED response
             ELSE /\ route' = [route EXCEPT ![r] = "responded"]
                  /\ response' = [response EXCEPT ![r] = "200"]
    /\ UNCHANGED <<requestArgs, now, hasEarnedPoints, problems, totalPoints,
                   executorVars>>

\* await storage.updateUserPoints(userId, problem.points):
\* set total_points = total_points + points
UpdateUserPoints(r) ==
    /\ route[r] = "updateUserPoints"
    /\ totalPoints' = totalPoints + problems[problemId[r]].points
    /\ route' = [route EXCEPT ![r] = "achievements"]
    /\ UNCHANGED <<requestArgs, now, hasEarnedPoints, response, problems,
                   submissions, executorVars>>

\* userSubmissions = await storage.getStudentSubmissions(userId), an
\* achievement row at 10 and at 20 problems solved (another table; neither
\* number is reached with the problems of ProblemIds), then res.json(submission)
Achievements(r) ==
    /\ route[r] = "achievements"
    /\ route' = [route EXCEPT ![r] = "responded"]
    /\ response' = [response EXCEPT ![r] = "200"]
    /\ UNCHANGED <<requestArgs, now, hasEarnedPoints, storageVars, executorVars>>

\* ------------------------------------------------- the routes of a problem
\* The users table: a student and two teachers; "none" is a request without a
\* session.  The problems of the problems table are those of one classroom,
\* created by the teacher Creator.
Users == {"u1", "t1", "t2"}
Role(u) == IF u = User THEN "student" ELSE "teacher"
Creator == "t1"
MaxTime == 2

Endpoints == {"list", "view", "test", "submit"}

\* where a request of each route starts: app.get("/api/classrooms/:id/problems",
\* requireAuth, ...), app.get("/api/problems/:id", requireAuth, ...),
\* app.post("/api/problems/:id/test", async ...) and
\* app.post("/api/submissions", requireAuth, ...)
Registered(endpoint) ==
    CASE endpoint = "list" -> "requireAuth"
      [] endpoint = "view" -> "requireAuth"
      [] endpoint = "test" -> "testProblem"
      [] endpoint = "submit" -> "requireAuth"

Handler(endpoint) ==
    CASE endpoint = "list" -> "getClassroomProblems"
      [] endpoint = "view" -> "viewProblem"
      [] endpoint = "test" -> "testProblem"
      [] endpoint = "submit" -> "getProblem"

\* requireAuth: next() when the session names a stored user, else 401
RequireAuth(r) ==
    /\ route[r] = "requireAuth"
    /\ IF request[r].userId \in Users
       THEN /\ route' = [route EXCEPT ![r] = Handler(request[r].endpoint)]
            /\ UNCHANGED response
       ELSE /\ route' = [route EXCEPT ![r] = "responded"]
            /\ response' = [response EXCEPT ![r] = "401"]
    /\ UNCHANGED <<requestArgs, now, hasEarnedPoints, storageVars,
                   executorVars>>

\* GET /api/classrooms/:id/problems:
\* res.json(await storage.getClassroomProblems(classroomId))
ListProblems(r) ==
    /\ route[r] = "getClassroomProblems"
    /\ route' = [route EXCEPT ![r] = "responded"]
    /\ response' = [response EXCEPT ![r] = "200"]
    /\ UNCHANGED <<requestArgs, now, hasEarnedPoints, storageVars,
                   executorVars>>

\* problem.scheduledAt && new Date(problem.scheduledAt) > new Date()
NotYetAvailable(problem) ==
    /\ problem.scheduledAt # <<>>
    /\ problem.scheduledAt[1] > now

\* user?.role !== "teacher" || problem.createdBy !== userId
NotItsTeacher(userId, problem) ==
    \/ Role(userId) # "teacher"
    \/ problem.createdBy # userId

\* GET /api/problems/:id up to its checks: 404 without the problem, 403 for a
\* problem that is not yet available to the user
ViewProblem(r) ==
    /\ route[r] = "viewProblem"
    /\ IF problemId[r] \notin DOMAIN problems
       THEN /\ route' = [route EXCEPT ![r] = "responded"]
            /\ response' = [response EXCEPT ![r] = "404"]
       ELSE IF /\ NotYetAvailable(problems[problemId[r]])
               /\ NotItsTeacher(request[r].userId, problems[problemId[r]])
       THEN /\ route' = [route EXCEPT ![r] = "responded"]
            /\ response' = [response EXCEPT ![r] = "403"]
       ELSE /\ route' = [route EXCEPT ![r] = "hasSolved"]
            /\ UNCHANGED response
    /\ UNCHANGED <<requestArgs, now, hasEarnedPoints, storageVars,
                   executorVars>>

\* hasSolved = await storage.hasUserEarnedPointsForProblem(userId, problemId);
\* res.json({ ...problem, hasSolved })
HasSolved(r) ==
    /\ route[r] = "hasSolved"
    /\ route' = [route EXCEPT ![r] = "responded"]
    /\ response' = [response EXCEPT ![r] = "200"]
    /\ UNCHANGED <<requestArgs, now, hasEarnedPoints, storageVars,
                   executorVars>>

\* POST /api/problems/:id/test: const problem = await storage.getProblem(
\* problemId); 404 without it, else executeJavaCode(code, problem.testCases)
TestProblem(r) ==
    /\ route[r] = "testProblem"
    /\ IF problemId[r] \in DOMAIN problems
       THEN /\ route' = [route EXCEPT ![r] = "testExecute"]
            /\ pc' = [pc EXCEPT ![r] = "mkdir"]
            /\ testCases' = [testCases EXCEPT
                                ![r] = problems[problemId[r]].testCases]
            /\ UNCHANGED response
       ELSE /\ route' = [route EXCEPT ![r] = "responded"]
            /\ response' = [response EXCEPT ![r] = "404"]
            /\ UNCHANGED <<pc, testCases>>
    /\ UNCHANGED <<requestArgs, now, hasEarnedPoints, storageVars, javaCode,
                   runVars, resultVars, thrown, verdict, child, files,
                   histVars>>

\* const result = await executeJavaCode(...); res.json({status, output, error,
\* executionTime})
TestRespond(r) ==
    /\ route[r] = "testExecute"
    /\ Returned(r)
    /\ route' = [route EXCEPT ![r] = "responded"]
    /\ response' = [response EXCEPT ![r] = "200"]
    /\ UNCHANGED <<requestArgs, now, hasEarnedPoints, storageVars,
                   executorVars>>

\* the clock advances
Tick ==
    /\ now < MaxTime
    /\ now' = now + 1
    /\ UNCHANGED <<route, requestArgs, hasEarnedPoints, response, storageVars,
                   executorVars>>

\* ----------------------------------------------------------- specification
Step(r) ==
    \/ Mkdir(r)
    \/ WriteSource(r)
    \/ SpawnJavac(r)
    \/ AfterCompile(r)
    \/ WriteInput(r)
    \/ SpawnJava(r)
    \/ AfterExecute(r)
    \/ UnlinkInput(r)
    \/ Return(r)
    \/ Catch(r)
    \/ UnlinkSource(r)
    \/ UnlinkClass(r)

ChildEvent(r) ==
    \/ TimerFires(r)
    \/ StdoutData(r)
    \/ StderrData(r)
    \/ ChildCloses(r)
    \/ ChildErrors(r)

\* The continuation of an await runs as soon as the handler that resolved the
\* promise returns, before the next event is handled: while a run goes through
\* executeJavaCode, the events of its child are those that arrive before the
\* promise settles.
Pending(r) == ~child[r].isResolved

PendingEvent(r) ==
    \/ Pending(r) /\ TimerFires(r)
    \/ Pending(r) /\ StdoutData(r)
    \/ Pending(r) /\ StderrData(r)
    \/ Pending(r) /\ ChildCloses(r)
    \/ Pending(r) /\ ChildErrors(r)

Next == \E r \in Runs : Step(r) \/ PendingEvent(r)

Spec == Init /\ [][Next]_vars

\* one call of runCommand by itself, for javac (no input) or for java with a
\* test case's input, with every event of its child and timer, also those
\* handled after the promise settled
InitRunCommand ==
    /\ InitRun({}, [r \in {} |-> <<>>])
    /\ \E command \in {"javac", "java"} : \E input \in Inputs :
          /\ command = "javac" => input = <<>>
          /\ child = [r \in Runs |-> IF r = "r1"
                                     THEN NewChild(command, 1, input)
                                     ELSE NoChild]
    /\ SingleClass
    /\ NoRequests

NextRunCommand == ChildEvent("r1")

SpecRunCommand == InitRunCommand /\ [][NextRunCommand]_vars


\* one call of executeJavaCode beside another: two runs in the same temp
\* directory, each with one test case, whose children print nothing
ConcTestCaseLists ==
    {<<[input |-> <<>>, expectedOutput |-> e]>> : e \in {<<>>, <<"a">>}}

InitConc ==
    /\ \E cases \in [Runs -> ConcTestCaseLists] : InitRun(Runs, cases)
    /\ child = [r \in Runs |-> NoChild]
    /\ SingleClass
    /\ NoRequests

PendingClose(r) == Pending(r) /\ ChildCloses(r)

NextConc == \E r \in Runs : Step(r) \/ PendingClose(r)

SpecConc == InitConc /\ [][NextConc]_vars

\* one call of executeJavaCode under the scheduling Node gives it: an awaited
\* fs call completes and the continuation of a settled await runs (Step), and
\* a timer that is armed fires.  Nothing is assumed of the child: it need not
\* print, close or fail.
Fairness ==
    \A r \in Runs :
        /\ WF_vars(Step(r))
        /\ WF_vars(Pending(r) /\ TimerFires(r))

\* one call of executeJavaCode with any number of test cases up to MaxCases,
\* each with an input and an expected output of one line
FairTestCaseLists ==
    SeqsUpTo({[input |-> <<"a">>, expectedOutput |-> <<"a", "\n">>]}, MaxCases)

InitFair ==
    /\ \E cases \in [{"r1"} -> FairTestCaseLists] : InitRun({"r1"}, cases)
    /\ child = [r \in Runs |-> NoChild]
    /\ SingleClass
    /\ NoRequests

SpecFair == InitFair /\ [][Next]_vars /\ Fairness

\* two requests POST /api/submissions of one user, each for a problem that is
\* stored or for one that is not, at any distance in time: one after the other
\* or interleaved at their awaits
InitSubmit ==
    /\ InitRun({}, [r \in {} |-> <<>>])
    /\ child = [r \in Runs |-> NoChild]
    /\ SingleClass
    /\ route = [r \in Runs |-> "getProblem"]
    /\ request = [r \in Runs |-> [endpoint |-> "submit", userId |-> User]]
    /\ problemId \in [Runs -> ProblemIds]
    /\ now = 0
    /\ hasEarnedPoints = [r \in Runs |-> FALSE]
    /\ response = [r \in Runs |-> "none"]
    /\ \E cases \in ConcTestCaseLists :
          problems = [p \in StoredProblemIds |->
                         [points |-> ProblemPoints, testCases |-> cases]]
    /\ submissions = <<>>
    /\ totalPoints = 0

RouteStep(r) ==
    \/ GetProblem(r)
    \/ HasEarned(r)
    \/ CreateSubmission(r)
    \/ UpdateUserPoints(r)
    \/ Achievements(r)

NextSubmit == \E r \in Runs : RouteStep(r) \/ Step(r) \/ PendingClose(r)

SpecSubmit == InitSubmit /\ [][NextSubmit]_vars

\* one request to one of the four routes of a problem, by any user or without
\* a session, for a problem that is stored (with no, one or no test case at
\* all, scheduled or not) or for one that is not, while the clock advances
AccessTestCaseLists == ConcTestCaseLists \cup {<<>>}
ScheduledTimes == {<<>>} \cup {<<t>> : t \in 1..MaxTime}

InitAccess ==
    /\ InitRun({}, [r \in {} |-> <<>>])
    /\ child = [r \in Runs |-> NoChild]
    /\ SingleClass
    /\ \E endpoint \in Endpoints : \E userId \in Users \cup {"none"} :
          /\ request = [r \in Runs |->
                           IF r = "r1"
                           THEN [endpoint |-> endpoint, userId |-> userId]
                           ELSE NoRequest]
          /\ route = [r \in Runs |->
                         IF r = "r1" THEN Registered(endpoint) ELSE "none"]
          /\ \E p \in ProblemIds :
                problemId = [r \in Runs |->
                                IF r = "r1" /\ endpoint # "list"
                                THEN p ELSE "none"]
    /\ now = 0
    /\ hasEarnedPoints = [r \in Runs |-> FALSE]
    /\ response = [r \in Runs |-> "none"]
    /\ \E cases \in AccessTestCaseLists : \E at \in ScheduledTimes :
          problems = [p \in StoredProblemIds |->
                         [points |-> ProblemPoints, testCases |-> cases,
                          createdBy |-> Creator, scheduledAt |-> at]]
    /\ submissions = <<>>
    /\ totalPoints = 0

AccessStep(r) ==
    \/ RequireAuth(r)
    \/ ListProblems(r)
    \/ ViewProblem(r)
    \/ HasSolved(r)
    \/ TestProblem(r)
    \/ TestRespond(r)

NextAccess ==
    \/ AccessStep("r1")
    \/ RouteStep("r1")
    \/ Step("r1")
    \/ PendingClose("r1")
    \/ Tick

SpecAccess == InitAccess /\ [][NextAccess]_vars

\* executeJavaCode called for a source with a Helper class, alone or beside a
\* call for another such source: each source has one test case, compiles, and
\* its program prints what its Helper class computes
InitInterfere ==
    /\ \E started \in {{"r1"}, Runs} : \E cases \in [Runs -> ConcTestCaseLists] :
          InitRun(started, cases)
    /\ child = [r \in Runs |-> NoChild]
    /\ javaCode \in [Runs -> HelperVariants]
    /\ NoRequests

PendingCompile(r) ==
    /\ Pending(r)
    /\ child[r].command = "javac"
    /\ ChildCloses(r)
    /\ child'[r].closeCode = <<0>>

PendingHelperRun(r) == Pending(r) /\ HelperRuns(r)

NextInterfere ==
    \E r \in Runs : Step(r) \/ PendingCompile(r) \/ PendingHelperRun(r)

SpecInterfere == InitInterfere /\ [][NextInterfere]_vars

\* executeJavaCode called twice with the same code and test cases, the second
\* call after the first returned; a java child may also end by an exception
RepeatTestCaseLists == {<<t>> : t \in TestCase}

InitRepeat ==
    /\ \E cases \in RepeatTestCaseLists : InitRun(Runs, [r \in Runs |-> cases])
    /\ child = [r \in Runs |-> NoChild]
    /\ SingleClass
    /\ NoRequests

PendingTrace(r) == Pending(r) /\ StderrTrace(r)

RunStep(r) == Step(r) \/ PendingEvent(r) \/ PendingTrace(r)

NextRepeat ==
    \/ RunStep("r1")
    \/ Returned("r1") /\ RunStep("r2")

SpecRepeat == InitRepeat /\ [][NextRepeat]_vars

\* the comparison by itself: a run with one test case, compiled, whose java
\* child closed with code 0 or 1 after it printed any text of OutputTexts, at
\* the await of runCommand('java'); the expected output is any such text
InitCompare ==
    /\ pc = [r \in Runs |-> IF r = "r1" THEN "awaitExecute" ELSE "idle"]
    /\ \E e \in OutputTexts :
          testCases = [r \in Runs |->
                          IF r = "r1"
                          THEN <<[input |-> <<>>, expectedOutput |-> e]>>
                          ELSE <<>>]
    /\ i = [r \in Runs |-> 0]
    /\ allTestsPassed = [r \in Runs |-> TRUE]
    /\ output = [r \in Runs |-> <<>>]
    /\ error = [r \in Runs |-> <<>>]
    /\ testCaseResults = [r \in Runs |-> <<>>]
    /\ compileResult =
          [r \in Runs |->
              IF r = "r1"
              THEN <<[stdout |-> <<>>, stderr |-> <<>>, exitCode |-> 0]>>
              ELSE <<>>]
    /\ executeResult = [r \in Runs |-> <<>>]
    /\ thrown = [r \in Runs |-> <<>>]
    /\ verdict = [r \in Runs |-> NoVerdict]
    /\ \E o \in OutputTexts : \E code \in {0, 1} :
          child = [r \in Runs |->
                      IF r = "r1"
                      THEN [CloseHandler([NewChild("java", 2, <<>>)
                                             EXCEPT !.stdout = o], code)
                               EXCEPT !.closed = TRUE, !.closeCode = <<code>>]
                      ELSE NoChild]
    /\ files = {SourceFile("r1"), ClassFile("r1"), InputFile(0)}
    /\ spawned = [r \in Runs |->
                     IF r = "r1"
                     THEN <<[command |-> "javac", case |-> 0],
                            [command |-> "java", case |-> 1]>>
                     ELSE <<>>]
    /\ runLog = [r \in Runs |-> <<>>]
    /\ touched = [r \in Runs |->
                     IF r = "r1" THEN {SourceFile("r1"), InputFile(0)} ELSE {}]
    /\ unlinkFailed = [r \in Runs |-> FALSE]
    /\ SingleClass
    /\ NoRequests

NextCompare == AfterExecute("r1")

SpecCompare == InitCompare /\ [][NextCompare]_vars

\* ------------------------------------------------------------------ claims
TimeoutResult == [stdout |-> <<>>, stderr |-> TimeoutMessage, exitCode |-> 1]

\* what the resolved value is when the promise settles by the close event
RealResults == [stdout : Texts, stderr : StderrTexts, exitCode : {0, 1}]

SpawnErrorResult == [stdout |-> <<>>, stderr |-> SpawnErrorMessage, exitCode |-> 1]

C1_Once ==
    \A r \in Runs :
        /\ Len(child[r].resolveLog) <= 1
        /\ child[r].isResolved <=> Settled(child[r])
        /\ Settled(child[r]) =>
              PromiseValue(child[r])
                  \in RealResults \cup {TimeoutResult, SpawnErrorResult}
        /\ child[r].kills > 0 =>
              child[r].timer = "fired" /\ PromiseValue(child[r]) = TimeoutResult

C1_LateEventsInert ==
    \A r \in Runs :
        (child[r].isResolved /\ child'[r].id = child[r].id) =>
            /\ child'[r].resolveLog = child[r].resolveLog
            /\ child'[r].kills = child[r].kills

\* C1: whatever the order of the timer, the close event and the error event of
\* one runCommand call, resolve is called exactly once, with the real result or
\* with the timeout result; an event handled after that neither changes the
\* resolved value nor sends a kill.
C1_SingleResolution == [](C1_Once) /\ [][C1_LateEventsInert]_vars

\* a run whose timer fired and whose close and error events were handled after
C1_Witness ==
    \E r \in Runs :
        /\ child[r].timer = "fired"
        /\ child[r].closed
        /\ child[r].errored
        /\ Len(child[r].resolveLog) = 1

\* C10: when the timer fires before the close or error event was handled, the
\* child is sent SIGKILL and the promise resolves with exit code 1, stderr
\* "Timeout: Code execution took too long" and an empty stdout, whatever the
\* child had printed.
C10_TimeoutOutcome ==
    \A r \in Runs :
        child[r].timer = "fired" =>
            /\ child[r].kills = 1
            /\ Settled(child[r])
            /\ PromiseValue(child[r]).exitCode # 0
            /\ PromiseValue(child[r]).stderr = TimeoutMessage
            /\ PromiseValue(child[r]).stdout = <<>>

\* the timer of a child that had printed on both streams fired
C10_Witness ==
    \E r \in Runs :
        /\ child[r].timer = "fired"
        /\ child[r].stdout # <<>>
        /\ child[r].stderr # <<>>
        /\ ~child[r].closed


\* the k-th test-case run of r failed: a non-zero exit code (a timeout is
\* one), or an output that differs from the expected one
CaseFailed(r, k) ==
    \/ runLog[r][k].exitCode # 0
    \/ StripTrailingNewlines(runLog[r][k].stdout)
           # StripTrailingNewlines(testCases[r][k].expectedOutput)

FirstFailure(r, k) ==
    /\ k \in 1..Len(runLog[r])
    /\ CaseFailed(r, k)
    /\ \A j \in 1..(k - 1) : ~CaseFailed(r, j)

\* C2: when case k is the first case that fails, no java process is ever
\* spawned for a case after k, and the verdict returned holds exactly k
\* testCaseResults.
C2_ShortCircuit ==
    \A r \in Runs : \A k \in 1..Len(runLog[r]) :
        FirstFailure(r, k) =>
            /\ \A m \in 1..Len(spawned[r]) : spawned[r][m].case <= k
            /\ Returned(r) =>
                  /\ "testCaseResults" \in DOMAIN verdict[r]
                  /\ Len(verdict[r].testCaseResults) = k

\* a run of two test cases returned after its first case failed
C2_Witness ==
    \E r \in Runs :
        /\ Returned(r)
        /\ Len(testCases[r]) = 2
        /\ FirstFailure(r, 1)

\* the files a run writes into the temp directory
RunFiles(r) ==
    {SourceFile(r), ClassFile(r)}
        \cup {InputFile(k) : k \in 0..(Len(testCases[r]) - 1)}

\* C3: when executeJavaCode has returned and no unlink failed, none of the
\* files the run wrote is left: not the source file, not the class file, not
\* an input file.
C3_WorkspaceCleanup ==
    \A r \in Runs :
        (Returned(r) /\ ~unlinkFailed[r]) => files \cap RunFiles(r) = {}

\* C4: two runs in flight at the same time never write or unlink the same path.
C4_CollisionFreedom ==
    \A r1 \in Runs : \A r2 \in Runs \ {r1} :
        (pc[r1] # "done" /\ pc[r2] # "done") =>
            touched[r1] \cap touched[r2] = {}

\* C5: whatever step fails, executeJavaCode returns a verdict with a status;
\* a failure thrown by a step (and only such a failure) is reported as
\* status error under the prefix "Execution Error: ".
C5_NoExceptionEscapes ==
    \A r \in Runs :
        Returned(r) =>
            /\ verdict[r].status \in {"passed", "failed", "error"}
            /\ thrown[r] # <<>> =>
                  /\ verdict[r].status = "error"
                  /\ Head(verdict[r].error) = "Execution Error: "
                  /\ Head(verdict[r].error)
                        \notin {"Compilation Error: ", "Runtime Error in Test Case "}
            /\ (thrown[r] = <<>> /\ "error" \in DOMAIN verdict[r]) =>
                  Head(verdict[r].error) # "Execution Error: "

\* a run returned after the write of a test case's input file threw
C5_Witness ==
    \E r \in Runs :
        /\ Returned(r)
        /\ thrown[r] # <<>>
        /\ \E m \in 1..Len(spawned[r]) : spawned[r][m].command = "javac"
        /\ verdict[r].status = "error"

Compiled(r) == compileResult[r] # <<>> /\ compileResult[r][1].exitCode = 0

\* C6: when javac exits 0 and every test case was run, exited 0 and printed
\* the expected output up to trailing newlines, the verdict is passed, with
\* output "All <n> test cases passed!", no error, and n results all passed.
C6_AllPass ==
    \A r \in Runs :
        ( /\ Returned(r)
          /\ Compiled(r)
          /\ Len(runLog[r]) = Len(testCases[r])
          /\ \A k \in 1..Len(runLog[r]) : ~CaseFailed(r, k) ) =>
            /\ verdict[r].status = "passed"
            /\ verdict[r].output
                  = <<"All ", ToString(Len(testCases[r])), " test cases passed!">>
            /\ "error" \notin DOMAIN verdict[r]
            /\ Len(verdict[r].testCaseResults) = Len(testCases[r])
            /\ \A k \in 1..Len(testCases[r]) : verdict[r].testCaseResults[k].passed

\* two test cases passed, one of them on an output that equals the expected
\* one only after the trailing newlines are removed
C6_Witness ==
    \E r \in Runs :
        /\ Returned(r)
        /\ Len(testCases[r]) = 2
        /\ Len(runLog[r]) = 2
        /\ \A k \in 1..2 : ~CaseFailed(r, k)
        /\ \E k \in 1..2 : runLog[r][k].stdout # testCases[r][k].expectedOutput

\* C7: a test-case run that ends with a non-zero exit code or a timeout makes
\* the verdict an error (not failed), with the index of the test case and the
\* stderr in its error.
C7_RuntimeFailureIsError ==
    \A r \in Runs :
        ( /\ Returned(r)
          /\ runLog[r] # <<>>
          /\ runLog[r][Len(runLog[r])].exitCode # 0 ) =>
            /\ verdict[r].status = "error"
            /\ verdict[r].error
                  = <<"Runtime Error in Test Case ", ToString(Len(runLog[r])), ": ">>
                        \o executeResult[r][1].stderr

\* C8: when every run up to case k exits 0 and case k is the first whose
\* output differs, the verdict is failed, its error holds "Test Case k Failed",
\* and it has k results of which only the k-th did not pass.
C8_MismatchIsFailed ==
    \A r \in Runs : \A k \in 1..Len(runLog[r]) :
        ( /\ Returned(r)
          /\ FirstFailure(r, k)
          /\ \A j \in 1..k : runLog[r][j].exitCode = 0 ) =>
            /\ verdict[r].status = "failed"
            /\ SubSeq(verdict[r].error, 1, 3)
                  = <<"Test Case ", ToString(k), " Failed">>
            /\ Len(verdict[r].testCaseResults) = k
            /\ \A j \in 1..k : verdict[r].testCaseResults[j].passed <=> j < k

\* the first case passed and the second printed a line too many
C8_Witness ==
    \E r \in Runs :
        /\ Returned(r)
        /\ FirstFailure(r, 2)
        /\ runLog[r][2].exitCode = 0
        /\ Len(SplitLines(StripTrailingNewlines(runLog[r][2].stdout)))
              # Len(SplitLines(StripTrailingNewlines(testCases[r][2].expectedOutput)))

CompileFailed(r) == compileResult[r] # <<>> /\ compileResult[r][1].exitCode # 0

\* C9: when the javac run resolves with a non-zero exit code, no java process
\* is ever spawned and the verdict is an error whose error is
\* "Compilation Error: " followed by the stderr of that run.
C9_CompileFailure ==
    \A r \in Runs :
        CompileFailed(r) =>
            /\ \A m \in 1..Len(spawned[r]) : spawned[r][m].command # "java"
            /\ Returned(r) =>
                  /\ verdict[r].status = "error"
                  /\ verdict[r].error
                        = <<"Compilation Error: ">> \o compileResult[r][1].stderr

\* a run with test cases returned after its javac was killed by the timer
C9_Witness ==
    \E r \in Runs :
        /\ Returned(r)
        /\ CompileFailed(r)
        /\ compileResult[r][1].stderr = TimeoutMessage
        /\ testCases[r] # <<>>

\* C11: every call of executeJavaCode eventually returns a verdict, whatever
\* its children do, also when a child never closes: a runCommand call is
\* resolved when its timer has fired, and timers eventually fire.
C11_Termination ==
    /\ \A r \in Runs : (pc[r] # "idle") ~> (Returned(r) /\ verdict[r] # NoVerdict)
    /\ [](\A r \in Runs : child[r].timer = "fired" => child[r].isResolved)

\* a run returned after the timer of a java child that had not closed fired
C11_Witness ==
    \E r \in Runs :
        /\ Returned(r)
        /\ executeResult[r] # <<>>
        /\ executeResult[r][1].stderr = TimeoutMessage
        /\ executeResult[r][1].exitCode = 1

\* a text of at least one character
NonEmptyText(t) == \E k \in 1..Len(t) : t[k] # ""

\* C12: a returned verdict has one status of passed, failed and error, and it
\* has an error, a non-empty text, exactly when its status is not passed.
C12_VerdictInvariant ==
    \A r \in Runs :
        Returned(r) =>
            /\ verdict[r].status \in {"passed", "failed", "error"}
            /\ ("error" \in DOMAIN verdict[r]) <=> (verdict[r].status # "passed")
            /\ ("error" \in DOMAIN verdict[r]) => NonEmptyText(verdict[r].error)

\* a run returned after a java child exited with code 1 and an empty stderr
C12_Witness ==
    \E r \in Runs :
        /\ Returned(r)
        /\ verdict[r].status # "passed"
        /\ executeResult[r] # <<>>
        /\ executeResult[r][1].exitCode # 0
        /\ executeResult[r][1].stderr = <<>>

\* C13: a returned verdict carries all its fields on every path: its
\* executionTime and its testCaseResults (a sequence, possibly empty) are
\* defined also for a compile error and for a caught exception.
C13_CompleteVerdict ==
    \A r \in Runs :
        Returned(r) =>
            /\ "executionTime" \in DOMAIN verdict[r]
            /\ "testCaseResults" \in DOMAIN verdict[r]

\* C14: when the close event is handled before the timer fires (and the child
\* was spawned), the timer is cleared and never fires, no kill is sent, and the
\* promise resolves with the exit code of the child and with all it printed
\* on stdout and stderr.
C14_ProcessExitsFirst ==
    \A r \in Runs :
        (child[r].closed /\ ~child[r].errored /\ child[r].timer # "fired") =>
            /\ child[r].timer = "cleared"
            /\ child[r].kills = 0
            /\ Settled(child[r])
            /\ PromiseValue(child[r])
                  = [stdout |-> child[r].stdout, stderr |-> child[r].stderr,
                     exitCode |-> child[r].closeCode[1]]

\* the children of r whose promise resolved and whose result the run took
ResolvedCount(r) ==
    (IF compileResult[r] # <<>> THEN 1 ELSE 0) + Len(runLog[r])

C15_SpawnOrder ==
    \A r \in Runs : \A m \in 1..Len(spawned[r]) :
        /\ m < Len(spawned[r]) => m <= ResolvedCount(r)
        /\ m = 1 => spawned[r][m].command = "javac"
        /\ m > 1 =>
              /\ spawned[r][m] = [command |-> "java", case |-> m - 1]
              /\ Compiled(r)
              /\ \A j \in 1..(m - 2) : j <= Len(runLog[r]) /\ ~CaseFailed(r, j)

C15_SpawnStep ==
    \A r \in Runs :
        spawned'[r] # spawned[r] =>
            /\ child[r].command = "none"
            /\ Len(spawned[r]) = ResolvedCount(r)
            /\ child'[r].id = Len(spawned'[r])

\* C15: within one run a child is spawned only when every earlier child of the
\* run has resolved; the first child is javac, a java child is spawned only
\* after javac resolved with exit code 0, and the java child of a test case
\* only after the runs of all earlier test cases resolved and passed.
C15_StrictSequencing == [](C15_SpawnOrder) /\ [][C15_SpawnStep]_vars

\* the java child of the second test case is in flight
C15_Witness ==
    \E r \in Runs :
        /\ Len(spawned[r]) = 3
        /\ child[r].command = "java"
        /\ ~child[r].isResolved
        /\ Len(runLog[r]) = 1

\* C16: in every interleaving of the requests of one user for one problem, at
\* most one stored submission of the user for the problem has pointsEarned > 0
\* and the points of the problem are added to totalPoints at most once.
C16_AtMostOnceAward ==
    /\ \A p \in ProblemIds :
          Cardinality({k \in 1..Len(submissions) :
                          /\ submissions[k].studentId = User
                          /\ submissions[k].problemId = p
                          /\ submissions[k].pointsEarned > 0}) <= 1
    /\ totalPoints <= ProblemPoints

\* s and t are one text followed by newlines only
SameUpToTrailingNewlines(s, t) ==
    \E k \in 0..Len(s) :
        /\ k <= Len(t)
        /\ SubSeq(s, 1, k) = SubSeq(t, 1, k)
        /\ \A m \in (k + 1)..Len(s) : s[m] = "\n"
        /\ \A m \in (k + 1)..Len(t) : t[m] = "\n"

InsertAt(s, k, ch) == SubSeq(s, 1, k) \o <<ch>> \o SubSeq(s, k + 1, Len(s))

\* o is e with one more space (leading, internal or trailing) or with one
\* more newline that is not among the trailing newlines of e
WhitespaceAdded(e, o) ==
    \E k \in 0..Len(e) : \E ws \in {" ", "\n"} :
        /\ o = InsertAt(e, k, ws)
        /\ ws = " " \/ \E m \in (k + 1)..Len(e) : e[m] # "\n"

LineCount(s) == Cardinality({k \in 1..Len(s) : s[k] = "\n"}) + 1

\* C18: when the normalized outputs of a case that exited 0 differ, the error
\* names both line counts if they differ; otherwise it names the smallest
\* (1-based) index of a line that differs, with the expected and the actual
\* line as they are.
C18_MismatchDiagnostic ==
    \A r \in Runs :
        ( /\ testCaseResults[r] # <<>>
          /\ runLog[r][Len(runLog[r])].exitCode = 0
          /\ ~testCaseResults[r][Len(testCaseResults[r])].passed ) =>
            LET n == Len(testCaseResults[r])
                e == StripTrailingNewlines(testCases[r][n].expectedOutput)
                o == StripTrailingNewlines(runLog[r][n].stdout)
                el == SplitLines(e)
                al == SplitLines(o)
            IN /\ Len(el) = LineCount(e) /\ Len(al) = LineCount(o)
               /\ IF LineCount(e) # LineCount(o)
                  THEN error[r]
                         = <<"Test Case ", ToString(n), " Failed",
                             " - Different number of lines. Expected ",
                             ToString(LineCount(e)), " lines, got ",
                             ToString(LineCount(o)), " lines.">>
                  ELSE \E j \in 1..Len(el) :
                          /\ el[j] # al[j]
                          /\ \A m \in 1..(j - 1) : el[m] = al[m]
                          /\ error[r]
                                = <<"Test Case ", ToString(n), " Failed",
                                    " - Line ", ToString(j),
                                    " differs.\nExpected: \"">> \o el[j]
                                    \o <<"\"\nActual: \"">> \o al[j] \o <<"\"">>

\* two outputs of two lines each that differ in both lines
C18_Witness ==
    \E r \in Runs :
        /\ testCaseResults[r] # <<>>
        /\ testCases[r][1].expectedOutput = <<"a", "\n", "a">>
        /\ runLog[r][1] = [exitCode |-> 0, stdout |-> <<" ", "\n", " ", "\n">>]
        /\ error[r][5] = "1"

C19_Report ==
    \A r \in Runs :
        ( /\ Returned(r)
          /\ runLog[r] # <<>>
          /\ runLog[r][Len(runLog[r])].exitCode # 0 ) =>
            LET n == Len(runLog[r])
                stderr == executeResult[r][1].stderr
            IN /\ verdict[r].error
                     = <<"Runtime Error in Test Case ", ToString(n), ": ">>
                          \o stderr
               /\ Len(verdict[r].testCaseResults) = n
               /\ verdict[r].testCaseResults[n]
                     = [input |-> testCases[r][n].input,
                        expectedOutput |-> testCases[r][n].expectedOutput,
                        actualOutput |-> <<"Runtime Error: ">> \o stderr,
                        passed |-> FALSE]
               /\ \A m \in 1..Len(spawned[r]) : spawned[r][m].case <= n
               /\ verdict[r].status # "passed"

C19_TimeoutReported ==
    \A r \in Runs :
        ( /\ pc[r] = "awaitExecute"
          /\ pc'[r] # "awaitExecute"
          /\ child[r].timer = "fired" ) =>
            /\ pc'[r] = "return"
            /\ error'[r]
                  = <<"Runtime Error in Test Case ", ToString(i[r] + 1), ": ",
                      "Timeout: Code execution took too long">>

\* C19: when the run of test case n resolves with a non-zero exit code, by
\* itself or by the timeout, the results end with a result of case n that did
\* not pass and whose actualOutput is "Runtime Error: " and the stderr, no
\* later case is run, and the error of the verdict is "Runtime Error in Test
\* Case n: " and the stderr, which for a timeout is the Timeout message.
C19_RuntimeErrorReport == [](C19_Report) /\ [][C19_TimeoutReported]_vars

\* a run returned after the java child of its second test case timed out
C19_Witness ==
    \E r \in Runs :
        /\ Returned(r)
        /\ Len(runLog[r]) = 2
        /\ runLog[r][2].exitCode # 0
        /\ verdict[r].error[4] = TimeoutMessage[1]

\* a text with the token of run r made anonymous
Anonymous(text, r) ==
    [k \in 1..Len(text) |-> IF text[k] = r THEN "<suffix>" ELSE text[k]]

\* two results of runCommand of two runs that are the same but for the name
\* the run gave the class
SameResults(results1, r1, results2, r2) ==
    /\ Len(results1) = Len(results2)
    /\ \A k \in 1..Len(results1) :
          /\ results1[k].exitCode = results2[k].exitCode
          /\ results1[k].stdout = results2[k].stdout
          /\ Anonymous(results1[k].stderr, r1) = Anonymous(results2[k].stderr, r2)

\* the compiler and the program behaved in r2 as they did in r1, and the
\* file system failed in both or in none
SameBehaviour(r1, r2) ==
    /\ thrown[r1] = thrown[r2]
    /\ SameResults(compileResult[r1], r1, compileResult[r2], r2)
    /\ runLog[r1] = runLog[r2]
    /\ SameResults(executeResult[r1], r1, executeResult[r2], r2)

\* the field of a verdict, <<>> when it has none
Field(v, f) == IF f \in DOMAIN v THEN <<v[f]>> ELSE <<>>

\* C20: two calls with the same code and test cases whose compiler and
\* program behave the same return verdicts with the same status, output and
\* testCaseResults, whatever the token of each run.
C20_Determinism ==
    ( /\ Returned("r1") /\ Returned("r2")
      /\ testCases["r1"] = testCases["r2"]
      /\ SameBehaviour("r1", "r2") ) =>
        \A f \in {"status", "output", "testCaseResults"} :
            Field(verdict["r1"], f) = Field(verdict["r2"], f)

C21_CleanupStep ==
    \A r \in Runs :
        (pc[r] \in {"finally", "finallyClass"} /\ pc'[r] # pc[r]) =>
            LET path == IF pc[r] = "finally" THEN SourceFile(r) ELSE ClassFile(r)
            IN /\ verdict[r] # NoVerdict
               /\ verdict'[r] = verdict[r]
               /\ thrown'[r] = thrown[r]
               /\ pc'[r] = (IF pc[r] = "finally" THEN "finallyClass" ELSE "done")
               /\ files' \in {files, files \ {path}}
               /\ path \notin files => files' = files

\* C21: a cleanup step whose unlink fails, or whose file is not there, goes on
\* to the next step and changes neither the verdict computed before the
\* cleanup nor, when the file is not there, the directory; the run returns
\* that verdict.
C21_CleanupNeverMasks ==
    /\ [][C21_CleanupStep]_vars
    /\ [](\A r \in Runs : Returned(r) => verdict[r] # NoVerdict)

\* a run returned passed although an unlink of a file that was there failed
C21_Witness ==
    \E r \in Runs :
        /\ Returned(r)
        /\ unlinkFailed[r]
        /\ ClassFile(r) \in files
        /\ verdict[r].status = "passed"

\* C22: when the error event of the child is handled before its close event
\* and before the timer fires, the promise resolves with a non-zero exit code
\* and the message of the error as stderr, the timer is cleared and no kill
\* is sent.
C22_SpawnFailure ==
    \A r \in Runs :
        (child[r].errored /\ child[r].timer # "fired") =>
            /\ child[r].timer = "cleared"
            /\ child[r].kills = 0
            /\ Len(child[r].resolveLog) = 1
            /\ PromiseValue(child[r]).exitCode # 0
            /\ PromiseValue(child[r]).stderr = SpawnErrorMessage

\* the error event of a child that had printed on stderr was handled first,
\* its close event after
C22_Witness ==
    \E r \in Runs :
        /\ child[r].errored
        /\ child[r].closed
        /\ child[r].timer = "cleared"
        /\ child[r].stderr # <<>>

\* C23: the input of the test case is written to the stdin of its java child
\* when it is not empty, and the stdin of the child is ended in every case,
\* also when the input is empty.
C23_StdinDelivery ==
    \A r \in Runs :
        child[r].command = "java" =>
            /\ child[r].stdinWritten = testCases[r][i[r] + 1].input
            /\ child[r].stdinEnded

\* the lines "Test Case 1: Passed" to "Test Case n: Passed", each ended by a
\* newline, as a text of three segments a line
PassedLines(n) ==
    [m \in 1..(3 * n) |->
        IF (m - 1) % 3 = 0 THEN "Test Case "
        ELSE IF (m - 1) % 3 = 1 THEN ToString(((m - 1) \div 3) + 1)
        ELSE ": Passed\n"]

\* C24: when case k is the first case that fails (by its output or by its
\* exit code), the output of the verdict is the lines "Test Case i: Passed" of
\* the cases i < k in order and nothing else; it is empty for k = 1.
C24_FailedVerdictOutput ==
    \A r \in Runs : \A k \in 1..Len(runLog[r]) :
        (Returned(r) /\ FirstFailure(r, k)) =>
            /\ "output" \in DOMAIN verdict[r]
            /\ verdict[r].output = PassedLines(k - 1)

\* a run returned after its first case passed and its second printed nothing
C24_Witness ==
    \E r \in Runs :
        /\ Returned(r)
        /\ FirstFailure(r, 2)
        /\ runLog[r][2] = [exitCode |-> 0, stdout |-> <<>>]
        /\ verdict[r].output # <<>>


\* what a request obtained: the content of problem p is in the body of a 200
\* response of GET /api/problems/:id for p and of the classroom's problem list
ObtainedContent(r, p) ==
    /\ response[r] = "200"
    /\ \/ request[r].endpoint = "view" /\ problemId[r] = p
       \/ request[r].endpoint = "list" /\ p \in DOMAIN problems

\* executeJavaCode was called with the test cases of problem p
GradedAgainst(r, p) ==
    /\ request[r].endpoint \in {"test", "submit"}
    /\ problemId[r] = p
    /\ pc[r] # "idle"

\* C25: before the scheduledAt time of a problem, no request of a user other
\* than the teacher who created it has obtained the problem's content or has
\* had code graded against it, on any of the four routes
C25_ScheduledAccessControl ==
    \A r \in Runs : \A p \in DOMAIN problems :
        (NotYetAvailable(problems[p]) /\ request[r].userId # problems[p].createdBy)
            => /\ ~ObtainedContent(r, p)
               /\ ~GradedAgainst(r, p)

\* the promise of the child of r resolved with exitCode 0
ReportsZero(r) == Settled(child[r]) /\ PromiseValue(child[r]).exitCode = 0

\* the step in which a run takes the result of a java child that a signal
\* ended before the timer fired does not record the test case as passed
C26_SignalStep ==
    \A r \in Runs :
        ( /\ child[r].command = "java"
          /\ child[r].closeCode = <<NullCode>>
          /\ child[r].timer # "fired"
          /\ Len(testCaseResults'[r]) = Len(testCaseResults[r]) + 1 ) =>
            ~testCaseResults'[r][Len(testCaseResults'[r])].passed

\* C26: runCommand resolves with exitCode 0 only if the child itself exited
\* with code 0; a child that a signal ended before the timer fired (a close
\* event with the code null) is never reported as exit code 0, and its test
\* case is never counted as passed.
C26_ZeroMeansNormalExit ==
    /\ [](\A r \in Runs : ReportsZero(r) => child[r].closeCode = <<0>>)
    /\ [][C26_SignalStep]_vars

\* request r is a POST /api/submissions for a stored problem without a test
\* case whose code compiled
EmptySubmission(r) ==
    /\ request[r].endpoint = "submit"
    /\ problemId[r] \in DOMAIN problems
    /\ problems[problemId[r]].testCases = <<>>
    /\ Compiled(r)

\* C27: for source that compiles and an empty list of test cases,
\* executeJavaCode returns status passed with the output "All 0 test cases
\* passed!" and no testCaseResults entry, without spawning a java process, and
\* POST /api/submissions stores the submission with the points of the problem
\* and adds them to the user's total.
C27_EmptyTestCaseList ==
    \A r \in Runs :
        EmptySubmission(r) =>
            /\ \A m \in 1..Len(spawned[r]) : spawned[r][m].command # "java"
            /\ Returned(r) =>
                  verdict[r] = [status |-> "passed",
                                output |-> <<"All ", "0", " test cases passed!">>,
                                executionTime |-> "elapsed",
                                testCaseResults |-> <<>>]
            /\ route[r] = "responded" =>
                  /\ response[r] = "200"
                  /\ submissions
                        = << [studentId |-> request[r].userId,
                              problemId |-> problemId[r],
                              status |-> "passed",
                              pointsEarned |-> problems[problemId[r]].points] >>
                  /\ totalPoints = problems[problemId[r]].points

\* a submission for a problem without a test case was answered, and the
\* points are the user's
C27_Witness ==
    \E r \in Runs :
        /\ EmptySubmission(r)
        /\ route[r] = "responded"
        /\ spawned[r] = <<[command |-> "javac", case |-> 0]>>
        /\ totalPoints = ProblemPoints

\* code of request r was handed to the compiler
CodeCompiledOrRun(r) == spawned[r] # <<>>

\* C28: every route that calls executeJavaCode is behind requireAuth: no
\* request without an authenticated user ever has its code compiled or run.
C28_ExecutionRequiresAuth ==
    \A r \in Runs :
        (request[r].endpoint # "none" /\ request[r].userId \notin Users) =>
            /\ pc[r] = "idle"
            /\ ~CodeCompiledOrRun(r)

\* what run r returns when it is executed alone: its program runs with the
\* Helper class of its own source
AloneVerdict(r) ==
    LET testCase == testCases[r][1]
        result == [stdout |-> HelperOutput(javaCode[r]), stderr |-> <<>>,
                   exitCode |-> 0]
        passed == TestPassed(testCase, result)
    IN FinalVerdict(passed, 1,
                    IF passed THEN PassedLine(1) ELSE <<>>,
                    IF passed
                    THEN <<>>
                    ELSE MismatchError(
                            1,
                            StripTrailingNewlines(testCase.expectedOutput),
                            StripTrailingNewlines(result.stdout)),
                    <<ComparedResult(testCase, result)>>)

\* C29: whatever the interleaving of the steps of two concurrent runs, each
\* run whose steps did not fail returns the status, output and
\* testCaseResults that it returns when it is executed alone.
C29_VerdictNonInterference ==
    \A r \in Runs :
        (Returned(r) /\ thrown[r] = <<>>) =>
            \A f \in {"status", "output", "testCaseResults"} :
                Field(verdict[r], f) = Field(AloneVerdict(r), f)

\* C30: in every verdict with testCaseResults, entry j holds the input and the
\* expected output of test case j, every entry but possibly the last is
\* passed, and the status is passed exactly when there is an entry for every
\* test case and all entries are passed.
C30_InOrderPrefix ==
    \A r \in Runs :
        (Returned(r) /\ "testCaseResults" \in DOMAIN verdict[r]) =>
            LET results == verdict[r].testCaseResults
            IN /\ Len(results) <= Len(testCases[r])
               /\ \A j \in 1..Len(results) :
                     /\ results[j].input = testCases[r][j].input
                     /\ results[j].expectedOutput
                           = testCases[r][j].expectedOutput
                     /\ j < Len(results) => results[j].passed
               /\ verdict[r].status = "passed"
                     <=> /\ Len(results) = Len(testCases[r])
                         /\ \A j \in 1..Len(results) : results[j].passed

\* a verdict of two entries for two different test cases, the first one
\* passed and the second one not
C30_Witness ==
    \E r \in Runs :
        /\ Returned(r)
        /\ "testCaseResults" \in DOMAIN verdict[r]
        /\ Len(verdict[r].testCaseResults) = 2
        /\ testCases[r][1] # testCases[r][2]
        /\ verdict[r].testCaseResults[1].passed
        /\ ~verdict[r].testCaseResults[2].passed
        /\ verdict[r].testCaseResults[2].actualOutput
              # testCases[r][2].expectedOutput
        /\ verdict[r].status = "failed"

=============================================================================
